---- MODULE Spec2Model ----
(***************************************************************************)
(* OldModule/parallel-python.ipynb: the process-pool walkthrough.          *)
(*                                                                         *)
(* The notebook's code cells are executed in order by one kernel (the      *)
(* caller).  Each `pool = Pool(processes=k)` starts k worker processes     *)
(* and each `pool.map(task, xs)` is a dispatch: the iterable is cut into   *)
(* chunks, the chunks travel through the pool's task queue to the          *)
(* workers, every worker applies `task` to the items of the chunk it took, *)
(* and the pool's result handler stores each chunk's results at the        *)
(* chunk's own offset of the result list.  An exception raised in a cell   *)
(* aborts that cell; the kernel stays alive and the next cell can run.     *)
(*                                                                         *)
(* Pool semantics are those of the kernel recorded in the notebook         *)
(* metadata (CPython 3.7): map() chunks with                               *)
(* chunksize = ceil(len / (4 * processes)), a chunk stops at the first     *)
(* item that raises, only the first exception is kept, and the call        *)
(* returns or raises only when every chunk has reported.                   *)
(***************************************************************************)
EXTENDS Integers, Sequences, FiniteSets, TLC

\* ---------------------------------------------------------------- bounds
MaxLen == 5          \* longest `data` explored
MaxSizes == 2        \* longest `sizes` explored
MaxProcesses == 2    \* largest `processes` argument explored

\* ------------------------------------------------------- Python values
PyInt(n) == [tag |-> "int", v |-> n]
PyNone == [tag |-> "None", v |-> 0]

\* the lists cell 5 may bind `data` to: [0, 1, ..., n-1] as in the notebook,
\* with any of the items replaced by a value that is not a number
DataList(n, bad) == [j \in 1..n |-> IF j \in bad THEN PyNone ELSE PyInt(j - 1)]
\* values of N in `sizes = np.repeat(N, n)`
SizeVals == {-1, 2}

\* np.repeat(N, n): n copies of N
RECURSIVE repeat(_, _)
repeat(N, n) == IF n = 0 THEN << >> ELSE Append(repeat(N, n - 1), PyInt(N))

\* ------------------------------------------------------ the two tasks
\* cell 4:  def task(x): return x**2
task_x_raises(x) == IF x.tag = "int" THEN "" ELSE "TypeError"
\* variant of task: x*2 instead of x**2
task_x_double(x) == PyInt(x.v * 2)
task_x(x) == PyInt(x.v * x.v)

\* cell 8:  def task(N): rand = RandomState(42); a = rand.rand(N); return a.sort()
task_N_raises(N) ==
    IF N.tag # "int" THEN "TypeError"
    ELSE IF N.v < 0 THEN "ValueError"
    ELSE ""
\* variant of task: return the sorted array (np.sort(a)) instead of a.sort()
task_N_sorted(N) == [tag |-> "ndarray", v |-> N.v]
task_N(N) == PyNone

\* the function the name `task` is bound to: "square" after cell 4, "sort" after cell 8
Raises(f, x) == IF f = "square" THEN task_x_raises(x) ELSE task_N_raises(x)
Apply(f, x) == IF f = "square" THEN task_x(x) ELSE task_N(x)

Min(a, b) == IF a < b THEN a ELSE b

\* ------------------------------------------------------------- state
VARIABLES
    pc,          \* [cell, stmt]: the statement the kernel executes next
    isMain,      \* value of  __name__ == '__main__'
    processes,   \* the argument of Pool(processes=...)
    nproc,       \* processes the operating system lets this kernel have running
    ns,          \* names bound in the kernel namespace
    task,        \* current definition of `task`
    data,        \* cell 5
    sizes,       \* cell 9
    output,      \* the list `output`
    i,           \* loop variable of the serial loops
    start,       \* start = timer()
    stop,        \* stop = timer()
    clock,       \* elapsed steps, read by timer()
    printed,     \* lines printed so far
    raised,      \* exceptions that reached the user, with the cell they aborted
    pool,        \* the pool the name `pool` refers to (0: none)
    live,        \* pools created and not shut down: the worker processes of each
    forked,      \* the definition of `task` the current pool's workers hold
    taskqueue,   \* chunks of the current dispatch not yet sent to the workers
    inqueue,     \* chunks sent and not yet taken by a worker
    wtask,       \* per worker of the current pool: the chunk it holds
    outqueue,    \* chunk results sent back and not yet handled
    mr,          \* the MapResult of the current dispatch
    calls,       \* per item index: how often task was invoked on it (current dispatch)
    reordered,   \* some chunk reported before a chunk of lower index
    returned,    \* history of the dispatches that returned a result
    looped       \* history of the serial loops that ran to their end

vars == << pc, isMain, processes, nproc, ns, task, data, sizes, output, i, start, stop,
           clock, printed, raised, pool, live, forked, taskqueue, inqueue, wtask,
           outqueue, mr, calls, reordered, returned, looped >>

kernelVars == << isMain, processes, nproc >>
poolVars == << taskqueue, inqueue, wtask, outqueue, mr, calls, reordered >>

\* ------------------------------------------------------ cell sequencing
Stmt(c, s) == [cell |-> c, stmt |-> s]
At(c, s) == pc = Stmt(c, s)
Done == Stmt(0, "done")

FirstStmt(c) ==
    IF c = 6 THEN Stmt(6, "pool")
    ELSE IF c \in {7, 10} THEN Stmt(c, "start")
    ELSE Stmt(c, "run")

\* the code cell executed after cell c
NextCell(c) ==
    CASE c = 2 -> FirstStmt(4)
      [] c = 4 -> FirstStmt(5)
      [] c = 5 -> FirstStmt(6)
      [] c = 6 -> FirstStmt(7)
      [] c = 7 -> FirstStmt(8)
      [] c = 8 -> FirstStmt(9)
      [] c = 9 -> FirstStmt(10)
      [] OTHER -> Done

\* the iterable a cell works on: `sizes` in cell 10, `data` in cells 6 and 7
Arg(c) == IF c = 10 THEN sizes ELSE data

\* an exception instance: its type and the index (from 1) of the item whose call
\* raised it (0: not raised by a call of task)
Exc(type, item) == [type |-> type, item |-> item]
NoExc == Exc("", 0)

NoResult == [success |-> TRUE, value |-> << >>, exc |-> NoExc, number_left |-> 0,
             event |-> FALSE, chunksize |-> 0, length |-> 0]

\* the cells with a  pool = Pool(processes=3)
PoolSites == {2, 6, 7, 10}
\* process limits explored, in pools they leave room for: none, the first pool
\* only, every pool of the notebook
Limits == {0, 1, Cardinality(PoolSites)}

Init ==
    /\ pc = FirstStmt(2)
    /\ isMain \in BOOLEAN
    /\ processes \in 1..MaxProcesses
    /\ nproc \in {n * processes : n \in Limits}
    /\ ns = {}
    /\ task = "undefined"
    /\ data = << >>
    /\ sizes = << >>
    /\ output = << >>
    /\ i = 0
    /\ start = 0
    /\ stop = 0
    /\ clock = 0
    /\ printed = << >>
    /\ raised = << >>
    /\ pool = 0
    /\ live = << >>
    /\ forked = "undefined"
    /\ taskqueue = << >>
    /\ inqueue = << >>
    /\ wtask = << >>
    /\ outqueue = << >>
    /\ mr = NoResult
    /\ calls = << >>
    /\ reordered = FALSE
    /\ returned = << >>
    /\ looped = << >>

Tick == clock' = clock + 1

\* an exception leaves the cell: the rest of the cell is skipped
Abort(c, e) ==
    /\ raised' = Append(raised, [cell |-> c, exc |-> e])
    /\ pc' = NextCell(c)

\* ------------------------------------------------ pool = Pool(processes=k)
\* starts `processes` idle workers; each is a copy of the kernel process, so
\* it holds the definition of `task` current at this moment.  The name
\* `pool` is rebound; the pool it referred to before is not shut down.
RECURSIVE SumSeq(_)
SumSeq(s) == IF s = << >> THEN 0 ELSE Head(s) + SumSeq(Tail(s))

\* worker processes running: those of every pool created and not shut down
Alive == SumSeq(live)

\* Pool.__init__ starts `processes` worker processes one after the other;
\* starting one fails (OSError) where the operating system allows no more
CanStart == Alive + processes <= nproc

\* variant of PoolFails: the error is reported and the cell goes on
PoolFails_ignored(c) ==
    /\ raised' = Append(raised, [cell |-> c, exc |-> Exc("OSError", 0)])
    /\ pc' = IF c = 2 THEN NextCell(2)
             ELSE IF c = 6 THEN Stmt(6, "map") ELSE Stmt(c, "start2")
    /\ UNCHANGED << pool, live, forked, ns, wtask, taskqueue, inqueue, outqueue >>

\* Pool(processes=3) raises: nothing is bound and the cell is aborted
PoolFails(c) ==
    /\ Abort(c, Exc("OSError", 0))
    /\ UNCHANGED << pool, live, forked, ns, wtask, taskqueue, inqueue, outqueue >>

\* variant of Pool: the pool `pool` referred to is collected when the name is
\* rebound, and its worker processes end
Pool_collected ==
    /\ pool' = Len(live) + 1
    /\ live' = Append([p \in DOMAIN live |-> IF p = pool THEN 0 ELSE live[p]], processes)
    /\ forked' = task
    /\ ns' = ns \cup {"pool"}
    /\ wtask' = [w \in 1..processes |-> << >>]
    /\ taskqueue' = << >>
    /\ inqueue' = << >>
    /\ outqueue' = << >>

\* variant of Pool: one worker process fewer than asked for
Pool_short ==
    /\ pool' = Len(live) + 1
    /\ live' = Append(live, processes - 1)
    /\ forked' = task
    /\ ns' = ns \cup {"pool"}
    /\ wtask' = [w \in 1..(processes - 1) |-> << >>]
    /\ taskqueue' = << >>
    /\ inqueue' = << >>
    /\ outqueue' = << >>

Pool ==
    /\ pool' = Len(live) + 1
    /\ live' = Append(live, processes)
    /\ forked' = task
    /\ ns' = ns \cup {"pool"}
    /\ wtask' = [w \in 1..processes |-> << >>]
    /\ taskqueue' = << >>
    /\ inqueue' = << >>
    /\ outqueue' = << >>

\* ------------------------------------------------- pool.map(task, xs)
\* chunksize, extra = divmod(len(iterable), len(self._pool) * 4)
ChunkSize(n, k) ==
    IF n = 0 THEN 0
    ELSE (n \div (k * 4)) + (IF n % (k * 4) # 0 THEN 1 ELSE 0)

\* length // chunksize + bool(length % chunksize)
NumberLeft(n, size) ==
    IF size <= 0 THEN 0
    ELSE (n \div size) + (IF n % size # 0 THEN 1 ELSE 0)

\* variant of _get_tasks: an empty iterable still yields one (empty) batch
get_tasks_pad(xs, size) ==
    IF Len(xs) = 0
    THEN << [i |-> 0, args |-> << >>] >>
    ELSE [j \in 1..NumberLeft(Len(xs), size) |->
            [i |-> j - 1,
             args |-> SubSeq(xs, (j - 1) * size + 1, Min(j * size, Len(xs)))]]

\* Pool._get_tasks: batch j (from 0) is tuple(islice(it, size)), a copy of the items
get_tasks(xs, size) ==
    [j \in 1..NumberLeft(Len(xs), size) |->
        [i |-> j - 1,
         args |-> SubSeq(xs, (j - 1) * size + 1, Min(j * size, Len(xs)))]]

\* [None] * length
RECURSIVE Nones(_)
Nones(n) == IF n = 0 THEN << >> ELSE Append(Nones(n - 1), PyNone)

\* variant of MapResult.__init__: the event is set for every chunksize
MapResult_ready(n, size) ==
    [success |-> TRUE, value |-> Nones(n), exc |-> NoExc,
     number_left |-> NumberLeft(n, size), event |-> TRUE,
     chunksize |-> size, length |-> n]

MapResult(n, size) ==
    [success |-> TRUE, value |-> Nones(n), exc |-> NoExc,
     number_left |-> NumberLeft(n, size), event |-> (size <= 0),
     chunksize |-> size, length |-> n]

\* mapstar: list(map(f, args)) stops at the first item that raises
FirstRaise(f, args) ==
    LET bad == {j \in 1..Len(args) : Raises(f, args[j]) # ""}
    IN  IF bad = {} THEN 0 ELSE CHOOSE j \in bad : \A m \in bad : j <= m

\* (first: the index in the iterable of the item before args[1])
\* variant of mapstar: an item task raises on is skipped (None in its place)
\* and the chunk is reported as done
mapstar_skip(f, args, first) ==
    [success |-> TRUE,
     value |-> [j \in 1..Len(args) |->
                   IF Raises(f, args[j]) # "" THEN PyNone ELSE Apply(f, args[j])],
     exc |-> NoExc, ran |-> Len(args)]

mapstar(f, args, first) ==
    LET k == FirstRaise(f, args)
    IN  IF k = 0
        THEN [success |-> TRUE, value |-> [j \in 1..Len(args) |-> Apply(f, args[j])],
              exc |-> NoExc, ran |-> Len(args)]
        ELSE [success |-> FALSE, value |-> << >>,
              exc |-> Exc(Raises(f, args[k]), first + k), ran |-> k]

\* variant of the slice assignment: the result is inserted at the front
SliceAssign_front(v, lo, hi, result) ==
    result \o SubSeq(v, 1, Len(v) - Len(result))

\* self._value[lo:hi] = result   (Python slice assignment, lo and hi from 0)
SliceAssign(v, lo, hi, result) ==
    LET a == Min(lo, Len(v))
        b == IF Min(hi, Len(v)) < a THEN a ELSE Min(hi, Len(v))
    IN  SubSeq(v, 1, a) \o result \o SubSeq(v, b + 1, Len(v))

\* variant of _set: a failed chunk only counts down, its exception is dropped
set_swallow(m, ci, r) ==
    LET left == m.number_left - 1
    IN  IF r.success /\ m.success
        THEN [m EXCEPT !.number_left = left,
                       !.value = SliceAssign(m.value, ci * m.chunksize,
                                             (ci + 1) * m.chunksize, r.value),
                       !.event = (left = 0)]
        ELSE [m EXCEPT !.number_left = left,
                       !.event = (left = 0)]

\* variant of _set: the slice starts at i instead of i * chunksize
set_flat(m, ci, r) ==
    LET left == m.number_left - 1
    IN  IF r.success /\ m.success
        THEN [m EXCEPT !.number_left = left,
                       !.value = SliceAssign(m.value, ci, ci + m.chunksize, r.value),
                       !.event = (left = 0)]
        ELSE IF ~r.success /\ m.success
        THEN [m EXCEPT !.number_left = left,
                       !.success = FALSE,
                       !.value = << >>,
                       !.exc = r.exc,
                       !.event = (left = 0)]
        ELSE [m EXCEPT !.number_left = left,
                       !.event = (left = 0)]

\* variant of _set: chunks are stored in the order they report
set_arrival(m, ci, r) ==
    LET left == m.number_left - 1
        seen == NumberLeft(m.length, m.chunksize) - m.number_left
    IN  IF r.success /\ m.success
        THEN [m EXCEPT !.number_left = left,
                       !.value = SliceAssign(m.value, seen * m.chunksize,
                                             seen * m.chunksize + Len(r.value), r.value),
                       !.event = (left = 0)]
        ELSE IF ~r.success /\ m.success
        THEN [m EXCEPT !.number_left = left,
                       !.success = FALSE,
                       !.value = << >>,
                       !.exc = r.exc,
                       !.event = (left = 0)]
        ELSE [m EXCEPT !.number_left = left,
                       !.event = (left = 0)]

\* MapResult._set(i, (success, result))
\* variant of set: the event is set only when every chunk succeeded
set_hang(m, ci, r) ==
    LET left == m.number_left - 1
    IN  IF r.success /\ m.success
        THEN [m EXCEPT !.number_left = left,
                       !.value = SliceAssign(m.value, ci * m.chunksize,
                                             (ci + 1) * m.chunksize, r.value),
                       !.event = (left = 0)]
        ELSE IF ~r.success /\ m.success
        THEN [m EXCEPT !.number_left = left,
                       !.success = FALSE,
                       !.value = << >>,
                       !.exc = r.exc]
        ELSE [m EXCEPT !.number_left = left]

set(m, ci, r) ==
    LET left == m.number_left - 1
    IN  IF r.success /\ m.success
        THEN [m EXCEPT !.number_left = left,
                       !.value = SliceAssign(m.value, ci * m.chunksize,
                                             (ci + 1) * m.chunksize, r.value),
                       !.event = (left = 0)]
        ELSE IF ~r.success /\ m.success
        THEN [m EXCEPT !.number_left = left,
                       !.success = FALSE,
                       !.value = << >>,
                       !.exc = r.exc,
                       !.event = (left = 0)]
        ELSE [m EXCEPT !.number_left = left,
                       !.event = (left = 0)]

\* chunk indices of the current dispatch that have not been handled yet
ChunkIds(q) == {q[j].i : j \in 1..Len(q)}
Unhandled ==
    ChunkIds(taskqueue) \cup ChunkIds(inqueue) \cup ChunkIds(outqueue)
        \cup UNION {ChunkIds(wtask[w]) : w \in DOMAIN wtask}

\* the statement after `output = pool.map(...)` in cell c
AfterMap(c) == IF c = 6 THEN Stmt(6, "print") ELSE Stmt(c, "stop2")

\* `if __name__ == '__main__':  pool = Pool(processes=k)`
\* variant of PoolStmt: a pool is created only where `pool` is not bound yet
PoolStmt_reuse(c) ==
    /\ At(c, "pool")
    /\ IF isMain /\ pool = 0 /\ CanStart
       THEN /\ Pool
            /\ pc' = IF c = 6 THEN Stmt(6, "map") ELSE Stmt(c, "start2")
            /\ UNCHANGED raised
       ELSE IF isMain /\ pool = 0
       THEN PoolFails(c)
       ELSE /\ pc' = IF isMain
                     THEN (IF c = 6 THEN Stmt(6, "map") ELSE Stmt(c, "start2"))
                     ELSE (IF c = 6 THEN Stmt(6, "print") ELSE Stmt(c, "print2"))
            /\ UNCHANGED << raised, pool, live, forked, ns, wtask, taskqueue, inqueue,
                            outqueue >>
    /\ Tick
    /\ UNCHANGED << kernelVars, task, data, sizes, output, i, start, stop, printed,
                    mr, calls, reordered, returned, looped >>

PoolStmt(c) ==
    /\ At(c, "pool")
    /\ IF isMain /\ CanStart
       THEN /\ Pool
            /\ pc' = IF c = 6 THEN Stmt(6, "map") ELSE Stmt(c, "start2")
            /\ UNCHANGED raised
       ELSE IF isMain
       THEN PoolFails(c)
       ELSE /\ pc' = IF c = 6 THEN Stmt(6, "print") ELSE Stmt(c, "print2")
            /\ UNCHANGED << raised, pool, live, forked, ns, wtask, taskqueue, inqueue,
                            outqueue >>
    /\ Tick
    /\ UNCHANGED << kernelVars, task, data, sizes, output, i, start, stop, printed,
                    mr, calls, reordered, returned, looped >>

\* cell 2
Cell2 ==
    /\ At(2, "run")
    /\ IF isMain /\ CanStart
       THEN /\ Pool
            /\ pc' = NextCell(2)
            /\ UNCHANGED raised
       ELSE IF isMain
       THEN PoolFails(2)
       ELSE /\ pc' = NextCell(2)
            /\ UNCHANGED << raised, pool, live, forked, ns, wtask, taskqueue, inqueue,
                            outqueue >>
    /\ Tick
    /\ UNCHANGED << kernelVars, task, data, sizes, output, i, start, stop, printed,
                    mr, calls, reordered, returned, looped >>

\* cell 4: def task(x)
Cell4 ==
    /\ At(4, "run")
    /\ task' = "square"
    /\ ns' = ns \cup {"task"}
    /\ pc' = NextCell(4)
    /\ Tick
    /\ UNCHANGED << kernelVars, data, sizes, output, i, start, stop, printed, raised,
                    pool, live, forked, poolVars, returned, looped >>

\* cell 5: data = [...]
Cell5 ==
    /\ At(5, "run")
    /\ \E n \in 0..MaxLen : \E bad \in SUBSET (1..n) : data' = DataList(n, bad)
    /\ ns' = ns \cup {"data"}
    /\ pc' = NextCell(5)
    /\ Tick
    /\ UNCHANGED << kernelVars, task, sizes, output, i, start, stop, printed, raised,
                    pool, live, forked, poolVars, returned, looped >>

\* cell 8: def task(N)
Cell8 ==
    /\ At(8, "run")
    /\ task' = "sort"
    /\ ns' = ns \cup {"task"}
    /\ pc' = NextCell(8)
    /\ Tick
    /\ UNCHANGED << kernelVars, data, sizes, output, i, start, stop, printed, raised,
                    pool, live, forked, poolVars, returned, looped >>

\* cell 9: sizes = np.repeat(N, n)
Cell9 ==
    /\ At(9, "run")
    /\ \E N \in SizeVals, n \in 0..MaxSizes : sizes' = repeat(N, n)
    /\ ns' = ns \cup {"sizes"}
    /\ pc' = NextCell(9)
    /\ Tick
    /\ UNCHANGED << kernelVars, task, data, output, i, start, stop, printed, raised,
                    pool, live, forked, poolVars, returned, looped >>

\* output = pool.map(task, xs): the call, up to the point where it blocks
MapCall(c) ==
    /\ At(c, "map")
    /\ LET xs == Arg(c)
           size == ChunkSize(Len(xs), processes)
       IN  /\ taskqueue' = get_tasks(xs, size)
           /\ mr' = MapResult(Len(xs), size)
           /\ calls' = [j \in 1..Len(xs) |-> 0]
    /\ reordered' = FALSE
    /\ pc' = Stmt(c, "wait")
    /\ Tick
    /\ UNCHANGED << kernelVars, ns, task, data, sizes, output, i, start, stop, printed,
                    raised, pool, live, forked, inqueue, wtask, outqueue, returned, looped >>

\* the pool's task handler thread: sends the next chunk to the workers
HandleTasks ==
    /\ taskqueue # << >>
    /\ inqueue' = Append(inqueue, Head(taskqueue))
    /\ taskqueue' = Tail(taskqueue)
    /\ Tick
    /\ UNCHANGED << pc, kernelVars, ns, task, data, sizes, output, i, start, stop,
                    printed, raised, pool, live, forked, wtask, outqueue, mr, calls,
                    reordered, returned, looped >>

\* variant of get(): the newest chunk of the queue is taken first
WorkerGet_lifo(w) ==
    /\ wtask[w] = << >>
    /\ inqueue # << >>
    /\ wtask' = [wtask EXCEPT ![w] = << inqueue[Len(inqueue)] >>]
    /\ inqueue' = SubSeq(inqueue, 1, Len(inqueue) - 1)
    /\ Tick
    /\ UNCHANGED << pc, kernelVars, ns, task, data, sizes, output, i, start, stop,
                    printed, raised, pool, live, forked, taskqueue, outqueue, mr, calls,
                    reordered, returned, looped >>

\* variant of get(): the chunk is read but stays in the queue
WorkerGet_peek(w) ==
    /\ wtask[w] = << >>
    /\ inqueue # << >>
    /\ wtask' = [wtask EXCEPT ![w] = << Head(inqueue) >>]
    /\ Tick
    /\ UNCHANGED << pc, kernelVars, ns, task, data, sizes, output, i, start, stop,
                    printed, raised, pool, live, forked, taskqueue, inqueue, outqueue,
                    mr, calls, reordered, returned, looped >>

\* worker w: task = get()
WorkerGet(w) ==
    /\ wtask[w] = << >>
    /\ inqueue # << >>
    /\ wtask' = [wtask EXCEPT ![w] = << Head(inqueue) >>]
    /\ inqueue' = Tail(inqueue)
    /\ Tick
    /\ UNCHANGED << pc, kernelVars, ns, task, data, sizes, output, i, start, stop,
                    printed, raised, pool, live, forked, taskqueue, outqueue, mr, calls,
                    reordered, returned, looped >>

\* worker w: result = (True, func(*args)) or (False, e); put((job, i, result))
\* variant of WorkerRun: task reads a global that its earlier calls in the
\* dispatch changed, and returns None once there was one
WorkerRun_stateful(w) ==
    /\ wtask[w] # << >>
    /\ LET t == wtask[w][1]
           first == t.i * mr.chunksize
           r == mapstar(forked, t.args, first)
           idx == {first + j : j \in 1..r.ran}
           stale == \E j \in DOMAIN calls : calls[j] > 0
       IN  /\ outqueue' = Append(outqueue, [i |-> t.i, success |-> r.success,
                                            value |-> IF stale THEN Nones(Len(r.value))
                                                      ELSE r.value,
                                            exc |-> r.exc])
           /\ calls' = [j \in DOMAIN calls |-> IF j \in idx THEN calls[j] + 1 ELSE calls[j]]
    /\ wtask' = [wtask EXCEPT ![w] = << >>]
    /\ Tick
    /\ UNCHANGED << pc, kernelVars, ns, task, data, sizes, output, i, start, stop,
                    printed, raised, pool, live, forked, taskqueue, inqueue, mr, reordered,
                    returned, looped >>

WorkerRun(w) ==
    /\ wtask[w] # << >>
    /\ LET t == wtask[w][1]
           first == t.i * mr.chunksize
           r == mapstar(forked, t.args, first)
           idx == {first + j : j \in 1..r.ran}
       IN  /\ outqueue' = Append(outqueue, [i |-> t.i, success |-> r.success,
                                            value |-> r.value, exc |-> r.exc])
           /\ calls' = [j \in DOMAIN calls |-> IF j \in idx THEN calls[j] + 1 ELSE calls[j]]
    /\ wtask' = [wtask EXCEPT ![w] = << >>]
    /\ Tick
    /\ UNCHANGED << pc, kernelVars, ns, task, data, sizes, output, i, start, stop,
                    printed, raised, pool, live, forked, taskqueue, inqueue, mr, reordered,
                    returned, looped >>

\* the pool's result handler thread: takes the next chunk result and stores it
\* variant of HandleResults: the result that arrived last is handled first
HandleResults_lifo ==
    /\ outqueue # << >>
    /\ LET r == outqueue[Len(outqueue)]
       IN  /\ mr' = set(mr, r.i, r)
           /\ reordered' = (reordered \/ \E j \in Unhandled : j < r.i)
    /\ outqueue' = SubSeq(outqueue, 1, Len(outqueue) - 1)
    /\ Tick
    /\ UNCHANGED << pc, kernelVars, ns, task, data, sizes, output, i, start, stop,
                    printed, raised, pool, live, forked, taskqueue, inqueue, wtask, calls,
                    returned, looped >>

HandleResults ==
    /\ outqueue # << >>
    /\ LET r == Head(outqueue)
       IN  /\ mr' = set(mr, r.i, r)
           /\ reordered' = (reordered \/ \E j \in Unhandled : j < r.i)
    /\ outqueue' = Tail(outqueue)
    /\ Tick
    /\ UNCHANGED << pc, kernelVars, ns, task, data, sizes, output, i, start, stop,
                    printed, raised, pool, live, forked, taskqueue, inqueue, wtask, calls,
                    returned, looped >>

\* variant of get(): the value is returned without looking at _success
MapReturn_partial(c) ==
    /\ At(c, "wait")
    /\ mr.event
    /\ output' = mr.value
    /\ ns' = ns \cup {"output"}
    /\ returned' = Append(returned, [cell |-> c, f |-> task, xs |-> Arg(c),
                                     k |-> processes, result |-> mr.value,
                                     reordered |-> reordered])
    /\ pc' = AfterMap(c)
    /\ Tick
    /\ UNCHANGED << kernelVars, task, data, sizes, i, start, stop, printed, raised,
                    pool, live, forked, poolVars, looped >>

\* pool.map returns: the event is set and every chunk succeeded
\* variant of MapReturn: the results are also written into the input list
MapReturn_inplace(c) ==
    /\ At(c, "wait")
    /\ mr.event
    /\ mr.success
    /\ output' = mr.value
    /\ data' = IF c = 10 THEN data ELSE mr.value
    /\ sizes' = IF c = 10 THEN mr.value ELSE sizes
    /\ ns' = ns \cup {"output"}
    /\ returned' = Append(returned, [cell |-> c, f |-> task, xs |-> Arg(c),
                                     k |-> processes, result |-> mr.value,
                                     reordered |-> reordered])
    /\ pc' = AfterMap(c)
    /\ Tick
    /\ UNCHANGED << kernelVars, task, i, start, stop, printed, raised,
                    pool, live, forked, poolVars, looped >>

\* variant of MapReturn: output.extend(pool.map(...)) instead of output = pool.map(...)
MapReturn_extend(c) ==
    /\ At(c, "wait")
    /\ mr.event
    /\ mr.success
    /\ output' = output \o mr.value
    /\ ns' = ns \cup {"output"}
    /\ returned' = Append(returned, [cell |-> c, f |-> task, xs |-> Arg(c),
                                     k |-> processes, result |-> mr.value,
                                     reordered |-> reordered])
    /\ pc' = AfterMap(c)
    /\ Tick
    /\ UNCHANGED << kernelVars, task, data, sizes, i, start, stop, printed, raised,
                    pool, live, forked, poolVars, looped >>

MapReturn(c) ==
    /\ At(c, "wait")
    /\ mr.event
    /\ mr.success
    /\ output' = mr.value
    /\ ns' = ns \cup {"output"}
    /\ returned' = Append(returned, [cell |-> c, f |-> task, xs |-> Arg(c),
                                     k |-> processes, result |-> mr.value,
                                     reordered |-> reordered])
    /\ pc' = AfterMap(c)
    /\ Tick
    /\ UNCHANGED << kernelVars, task, data, sizes, i, start, stop, printed, raised,
                    pool, live, forked, poolVars, looped >>

\* pool.map raises: the event is set and some chunk failed
MapRaise(c) ==
    /\ At(c, "wait")
    /\ mr.event
    /\ ~mr.success
    /\ Abort(c, mr.exc)
    /\ Tick
    /\ UNCHANGED << kernelVars, ns, task, data, sizes, output, i, start, stop, printed,
                    pool, live, forked, poolVars, returned, looped >>

\* cell 6: print(output)
Print6 ==
    /\ At(6, "print")
    /\ IF "output" \in ns
       THEN /\ printed' = Append(printed, [cell |-> 6, line |-> "output",
                                           out |-> output, t |-> 0])
            /\ pc' = NextCell(6)
            /\ UNCHANGED raised
       ELSE /\ Abort(6, Exc("NameError", 0))
            /\ UNCHANGED printed
    /\ Tick
    /\ UNCHANGED << kernelVars, ns, task, data, sizes, output, i, start, stop,
                    pool, live, forked, poolVars, returned, looped >>

\* cells 7 and 10: start = timer()   (before the serial loop)
Start(c) ==
    /\ At(c, "start")
    /\ start' = clock
    /\ ns' = ns \cup {"start"}
    /\ pc' = Stmt(c, "init")
    /\ Tick
    /\ UNCHANGED << kernelVars, task, data, sizes, output, i, stop, printed, raised,
                    pool, live, forked, poolVars, returned, looped >>

\* output = []
InitOutput(c) ==
    /\ At(c, "init")
    /\ output' = << >>
    /\ ns' = ns \cup {"output"}
    /\ i' = 0
    /\ pc' = Stmt(c, "loop")
    /\ Tick
    /\ UNCHANGED << kernelVars, task, data, sizes, start, stop, printed, raised,
                    pool, live, forked, poolVars, returned, looped >>

\* variant of SerialLoop: each result is put at the front of the list
SerialLoop_prepend(c) ==
    /\ At(c, "loop")
    /\ IF i < Len(Arg(c))
       THEN IF Raises(task, Arg(c)[i + 1]) # ""
            THEN /\ Abort(c, Exc(Raises(task, Arg(c)[i + 1]), i + 1))
                 /\ UNCHANGED << output, i >>
            ELSE /\ output' = << Apply(task, Arg(c)[i + 1]) >> \o output
                 /\ i' = i + 1
                 /\ UNCHANGED << pc, raised >>
       ELSE /\ pc' = Stmt(c, "stop")
            /\ UNCHANGED << output, i, raised >>
    /\ looped' = IF i < Len(Arg(c)) THEN looped
                 ELSE Append(looped, [cell |-> c, f |-> task, xs |-> Arg(c),
                                      result |-> output])
    /\ Tick
    /\ UNCHANGED << kernelVars, ns, task, data, sizes, start, stop, printed,
                    pool, live, forked, poolVars, returned >>

\* for i in range(len(xs)): output.append(task(xs[i]))
SerialLoop(c) ==
    /\ At(c, "loop")
    /\ IF i < Len(Arg(c))
       THEN IF Raises(task, Arg(c)[i + 1]) # ""
            THEN /\ Abort(c, Exc(Raises(task, Arg(c)[i + 1]), i + 1))
                 /\ UNCHANGED << output, i >>
            ELSE /\ output' = Append(output, Apply(task, Arg(c)[i + 1]))
                 /\ i' = i + 1
                 /\ UNCHANGED << pc, raised >>
       ELSE /\ pc' = Stmt(c, "stop")
            /\ UNCHANGED << output, i, raised >>
    /\ looped' = IF i < Len(Arg(c)) THEN looped
                 ELSE Append(looped, [cell |-> c, f |-> task, xs |-> Arg(c),
                                      result |-> output])
    /\ Tick
    /\ UNCHANGED << kernelVars, ns, task, data, sizes, start, stop, printed,
                    pool, live, forked, poolVars, returned >>

\* stop = timer()   (after the serial loop)
Stop(c) ==
    /\ At(c, "stop")
    /\ stop' = clock
    /\ ns' = ns \cup {"stop"}
    /\ pc' = Stmt(c, "print1")
    /\ Tick
    /\ UNCHANGED << kernelVars, task, data, sizes, output, i, start, printed, raised,
                    pool, live, forked, poolVars, returned, looped >>

\* print("Time to run in serial = ", stop - start)
PrintSerial(c) ==
    /\ At(c, "print1")
    /\ printed' = Append(printed, [cell |-> c, line |-> "serial", out |-> << >>,
                                   t |-> stop - start])
    /\ pc' = Stmt(c, "pool")
    /\ Tick
    /\ UNCHANGED << kernelVars, ns, task, data, sizes, output, i, start, stop, raised,
                    pool, live, forked, poolVars, returned, looped >>

\* variant of Start2: the timer was read before Pool(...) ran
Start2_early(c) ==
    /\ At(c, "start2")
    /\ start' = clock - 1
    /\ pc' = Stmt(c, "map")
    /\ Tick
    /\ UNCHANGED << kernelVars, ns, task, data, sizes, output, i, stop, printed, raised,
                    pool, live, forked, poolVars, returned, looped >>

\* start = timer()   (inside the guarded block, after Pool(...))
Start2(c) ==
    /\ At(c, "start2")
    /\ start' = clock
    /\ pc' = Stmt(c, "map")
    /\ Tick
    /\ UNCHANGED << kernelVars, ns, task, data, sizes, output, i, stop, printed, raised,
                    pool, live, forked, poolVars, returned, looped >>

\* stop = timer()   (inside the guarded block, after pool.map)
Stop2(c) ==
    /\ At(c, "stop2")
    /\ stop' = clock
    /\ pc' = Stmt(c, "print2")
    /\ Tick
    /\ UNCHANGED << kernelVars, ns, task, data, sizes, output, i, start, printed, raised,
                    pool, live, forked, poolVars, returned, looped >>

\* variant of PrintParallel: the print is inside the guarded block
PrintParallel_guarded(c) ==
    /\ At(c, "print2")
    /\ printed' = IF isMain
                  THEN Append(printed, [cell |-> c, line |-> "parallel", out |-> << >>,
                                        t |-> stop - start])
                  ELSE printed
    /\ pc' = NextCell(c)
    /\ Tick
    /\ UNCHANGED << kernelVars, ns, task, data, sizes, output, i, start, stop, raised,
                    pool, live, forked, poolVars, returned, looped >>

\* print("Time to run in parallel = ", stop - start)
PrintParallel(c) ==
    /\ At(c, "print2")
    /\ printed' = Append(printed, [cell |-> c, line |-> "parallel", out |-> << >>,
                                   t |-> stop - start])
    /\ pc' = NextCell(c)
    /\ Tick
    /\ UNCHANGED << kernelVars, ns, task, data, sizes, output, i, start, stop, raised,
                    pool, live, forked, poolVars, returned, looped >>

TimingCells == {7, 10}
MapCells == {6, 7, 10}

Next ==
    \/ Cell2
    \/ Cell4
    \/ Cell5
    \/ Cell8
    \/ Cell9
    \/ \E c \in MapCells : PoolStmt(c)
    \/ \E c \in MapCells : MapCall(c)
    \/ HandleTasks
    \/ \E w \in DOMAIN wtask : WorkerGet(w)
    \/ \E w \in DOMAIN wtask : WorkerRun(w)
    \/ HandleResults
    \/ \E c \in MapCells : MapReturn(c)
    \/ \E c \in MapCells : MapRaise(c)
    \/ Print6
    \/ \E c \in TimingCells : Start(c)
    \/ \E c \in TimingCells : InitOutput(c)
    \/ \E c \in TimingCells : SerialLoop(c)
    \/ \E c \in TimingCells : Stop(c)
    \/ \E c \in TimingCells : PrintSerial(c)
    \/ \E c \in TimingCells : Start2(c)
    \/ \E c \in TimingCells : Stop2(c)
    \/ \E c \in TimingCells : PrintParallel(c)

Spec == Init /\ [][Next]_vars

\* the shape of the state
TypeOK ==
    /\ pc.cell \in {0, 2, 4, 5, 6, 7, 8, 9, 10}
    /\ isMain \in BOOLEAN
    /\ processes \in Nat \ {0}
    /\ nproc \in Nat
    /\ ns \subseteq {"task", "data", "sizes", "output", "pool", "start", "stop"}
    /\ task \in {"undefined", "square", "sort"}
    /\ forked \in {"undefined", "square", "sort"}
    /\ \A j \in DOMAIN data : data[j].tag \in {"int", "None"}
    /\ \A j \in DOMAIN sizes : sizes[j].tag = "int"
    /\ i \in Nat
    /\ start \in Nat
    /\ stop \in Nat
    /\ clock \in Nat
    /\ pool \in 0..Len(live)
    /\ \A p \in DOMAIN live : live[p] = processes
    /\ DOMAIN wtask \subseteq 1..processes
    /\ \A w \in DOMAIN wtask : Len(wtask[w]) <= 1
    /\ \A j \in DOMAIN calls : calls[j] \in Nat
    /\ reordered \in BOOLEAN
    /\ \A n \in DOMAIN raised : raised[n].cell \in {2, 6, 7, 10}
    /\ \A n \in DOMAIN returned : returned[n].cell \in MapCells
    /\ \A n \in DOMAIN looped : looped[n].cell \in TimingCells

\* a step of the pool: of one of its threads, of a worker process, or of the
\* kernel thread waking up in pool.map
PoolStep ==
    \/ HandleTasks
    \/ \E w \in DOMAIN wtask : WorkerGet(w)
    \/ \E w \in DOMAIN wtask : WorkerRun(w)
    \/ HandleResults
    \/ \E c \in MapCells : MapReturn(c)
    \/ \E c \in MapCells : MapRaise(c)

\* these are threads and processes of the operating system, and every call of
\* task terminates: while one of them can take a step, one eventually does
Fairness == WF_vars(PoolStep)

\* cell 5 with a list on which task raises on no item, on one item, or on all
Cell5Few ==
    /\ At(5, "run")
    /\ \E n \in 0..MaxLen :
          \E bad \in {{}, 1..n} \cup {{j} : j \in 1..n} : data' = DataList(n, bad)
    /\ ns' = ns \cup {"data"}
    /\ pc' = NextCell(5)
    /\ Tick
    /\ UNCHANGED << kernelVars, task, sizes, output, i, start, stop, printed, raised,
                    pool, live, forked, poolVars, returned, looped >>

\* cells 2 to 7: the dispatch of cell 6, which returns or raises, and the
\* timing cell over the same data (its serial loop raises where its pool.map
\* would)
NextDispatch ==
    \/ Cell2
    \/ Cell4
    \/ Cell5Few
    \/ \E c \in {6, 7} : PoolStmt(c)
    \/ \E c \in {6, 7} : MapCall(c)
    \/ HandleTasks
    \/ \E w \in DOMAIN wtask : WorkerGet(w)
    \/ \E w \in DOMAIN wtask : WorkerRun(w)
    \/ HandleResults
    \/ \E c \in {6, 7} : MapReturn(c)
    \/ MapRaise(6)
    \/ Print6
    \/ Start(7)
    \/ InitOutput(7)
    \/ SerialLoop(7)
    \/ Stop(7)
    \/ PrintSerial(7)
    \/ Start2(7)
    \/ Stop2(7)
    \/ PrintParallel(7)

\* cell 5 with a list of two items (two chunks of one) and with the shortest
\* list that pool.map cuts into chunks of two; task raises on no item or on
\* the first
Cell5Chunks ==
    /\ At(5, "run")
    /\ \E n \in {2, 4 * processes + 1} :
          \E bad \in {{}, {1}} : data' = DataList(n, bad)
    /\ ns' = ns \cup {"data"}
    /\ pc' = NextCell(5)
    /\ Tick
    /\ UNCHANGED << kernelVars, task, sizes, output, i, start, stop, printed, raised,
                    pool, live, forked, poolVars, returned, looped >>

\* cells 2 to 7 over those lists
NextChunks ==
    \/ Cell2
    \/ Cell4
    \/ Cell5Chunks
    \/ \E c \in {6, 7} : PoolStmt(c)
    \/ \E c \in {6, 7} : MapCall(c)
    \/ HandleTasks
    \/ \E w \in DOMAIN wtask : WorkerGet(w)
    \/ \E w \in DOMAIN wtask : WorkerRun(w)
    \/ HandleResults
    \/ \E c \in {6, 7} : MapReturn(c)
    \/ MapRaise(6)
    \/ Print6
    \/ Start(7)
    \/ InitOutput(7)
    \/ SerialLoop(7)
    \/ Stop(7)
    \/ PrintSerial(7)
    \/ Start2(7)
    \/ Stop2(7)
    \/ PrintParallel(7)

\* run as the main module, with room for every pool
InitChunks ==
    /\ Init
    /\ isMain
    /\ nproc = Cardinality(PoolSites) * processes

SpecChunks == InitChunks /\ [][NextChunks]_vars

\* cells 2 to 7 run in order, under that scheduling
SpecFair == Init /\ [][NextDispatch]_vars /\ Fairness

\* ------------------------------------- the notebook with its own literals
NotebookProcesses == 3          \* Pool(processes=3)
NotebookLen == 10               \* data = [0,1,2,3,4,5,6,7,8,9]

NotebookData == DataList(NotebookLen, {})

\* a fresh kernel running the notebook as the main module
InitNotebook ==
    /\ pc = FirstStmt(2)
    /\ isMain = TRUE
    /\ processes = NotebookProcesses
    /\ nproc = Cardinality(PoolSites) * NotebookProcesses
    /\ ns = {}
    /\ task = "undefined"
    /\ data = << >>
    /\ sizes = << >>
    /\ output = << >>
    /\ i = 0
    /\ start = 0
    /\ stop = 0
    /\ clock = 0
    /\ printed = << >>
    /\ raised = << >>
    /\ pool = 0
    /\ live = << >>
    /\ forked = "undefined"
    /\ taskqueue = << >>
    /\ inqueue = << >>
    /\ wtask = << >>
    /\ outqueue = << >>
    /\ mr = NoResult
    /\ calls = << >>
    /\ reordered = FALSE
    /\ returned = << >>
    /\ looped = << >>

\* cell 5 as written: data = [0,1,2,3,4,5,6,7,8,9]
Cell5Notebook ==
    /\ At(5, "run")
    /\ data' = NotebookData
    /\ ns' = ns \cup {"data"}
    /\ pc' = NextCell(5)
    /\ Tick
    /\ UNCHANGED << kernelVars, task, sizes, output, i, start, stop, printed, raised,
                    pool, live, forked, poolVars, returned, looped >>

\* the output recorded in the notebook for cell 6
RecordedOutput ==
    << PyInt(0), PyInt(1), PyInt(4), PyInt(9), PyInt(16),
       PyInt(25), PyInt(36), PyInt(49), PyInt(64), PyInt(81) >>

\* the notebook as written, run up to the end of cell 6
\* (no item of this list makes task raise, so pool.map never raises here)
NextCell6 ==
    \/ Cell2
    \/ Cell4
    \/ Cell5Notebook
    \/ PoolStmt(6)
    \/ MapCall(6)
    \/ HandleTasks
    \/ \E w \in DOMAIN wtask : WorkerGet(w)
    \/ \E w \in DOMAIN wtask : WorkerRun(w)
    \/ HandleResults
    \/ MapReturn(6)
    \/ Print6

SpecCell6 == InitNotebook /\ [][NextCell6]_vars

\* the whole notebook on three processes, for every `data` and `sizes` explored
SpecProcesses3 == InitNotebook /\ [][Next]_vars

\* ===================================================== properties
\* the dispatch of cell c has just returned its result to the caller
JustReturned(c) == isMain /\ pc = AfterMap(c)
\* Pool(processes=3) of cell c raised
CreationFailed(c) ==
    \E n \in DOMAIN raised : raised[n].cell = c /\ raised[n].exc.type = "OSError"
\* [f(x) for x in xs]
Comprehension(f, xs) == [j \in 1..Len(xs) |-> Apply(f, xs[j])]
\* the chunk (from 0) of the current dispatch that item j (from 1) belongs to
ChunkOf(j) == (j - 1) \div mr.chunksize
\* f raises on some item of xs
HasBad(f, xs) == \E j \in 1..Len(xs) : Raises(f, xs[j]) # ""
Last(s) == s[Len(s)]

\* C1: whenever pool.map(task, xs) returns, for any number of processes, the
\* result has the length of xs, holds task(xs[j]) at every position j, and (in
\* the timing cells) is the list the serial loop of the same cell produced.
C1_ParallelEqualsSequential ==
    \A c \in MapCells :
        JustReturned(c) =>
            /\ Len(output) = Len(Arg(c))
            /\ \A j \in 1..Len(Arg(c)) : output[j] = Apply(task, Arg(c)[j])
            /\ c \in TimingCells =>
                  /\ looped # << >>
                  /\ Last(looped).cell = c
                  /\ output = Last(looped).result

\* a dispatch of five or more items cut into chunks of two has returned
C1_Witness ==
    /\ JustReturned(7)
    /\ Len(output) >= 5
    /\ mr.chunksize >= 2

\* C2: in every state of a dispatch, whatever chunks the workers took and in
\* whatever order they reported, each slot of the result holds the result of
\* its own item once its chunk was handled and None before; every result
\* returned is in input order, also when chunks reported out of order.
C2_OrderIndependent ==
    /\ \A c \in MapCells :
          (At(c, "wait") /\ mr.success) =>
              /\ Len(mr.value) = Len(Arg(c))
              /\ \A j \in 1..Len(Arg(c)) :
                    mr.value[j] = IF ChunkOf(j) \in Unhandled
                                  THEN PyNone
                                  ELSE Apply(task, Arg(c)[j])
    /\ \A n \in DOMAIN returned :
          returned[n].result = Comprehension(returned[n].f, returned[n].xs)

\* a dispatch of squares returned after some chunk reported before a lower one
C2_Witness ==
    \E n \in DOMAIN returned :
        /\ returned[n].reordered
        /\ returned[n].f = "square"
        /\ Len(returned[n].xs) >= 3
        /\ returned[n].k >= 2

\* C3: during a dispatch no item is handed to task more than once and no chunk
\* is held by two workers or by a worker and a queue at once; when the
\* dispatch returns, task was invoked exactly once on every index.
C3_ExactlyOnce ==
    /\ \A c \in MapCells :
          (At(c, "wait") \/ JustReturned(c)) =>
              /\ DOMAIN calls = 1..Len(Arg(c))
              /\ \A j \in DOMAIN calls : calls[j] <= 1
    /\ \A c \in MapCells :
          JustReturned(c) => \A j \in 1..Len(Arg(c)) : calls[j] = 1
    /\ \A w1, w2 \in DOMAIN wtask :
          (w1 # w2 /\ wtask[w1] # << >>) => wtask[w1] # wtask[w2]
    /\ \A w \in DOMAIN wtask :
          ChunkIds(wtask[w]) \cap
              (ChunkIds(taskqueue) \cup ChunkIds(inqueue) \cup ChunkIds(outqueue)) = {}

\* a dispatch of four or more items has returned, after two workers ran chunks
\* of it at the same time (a chunk reported before a lower one)
C3_Witness ==
    /\ JustReturned(7)
    /\ Len(data) >= 4
    /\ processes >= 2
    /\ reordered

\* C4: no dispatch returns a result when task raises on some item, and no
\* returned result is shorter than its input; a dispatch whose input holds a
\* failing item ends with the exception of one of the failing items, which
\* aborts the cell: the caller gets the exception and `output` is not bound.
C4_FailurePropagates ==
    /\ \A n \in DOMAIN returned :
          /\ ~HasBad(returned[n].f, returned[n].xs)
          /\ Len(returned[n].result) = Len(returned[n].xs)
    /\ \A c \in MapCells :
          (At(c, "wait") /\ mr.event /\ HasBad(task, Arg(c))) =>
              /\ ~mr.success
              /\ mr.exc.item \in 1..Len(Arg(c))
              /\ mr.exc.type # ""
              /\ mr.exc.type = Raises(task, Arg(c)[mr.exc.item])
    /\ (isMain /\ pc = FirstStmt(7) /\ ~CreationFailed(6) /\ HasBad("square", data)) =>
          /\ Len(raised) = 1
          /\ raised[1].cell = 6
          /\ raised[1].exc.type = "TypeError"
          /\ data[raised[1].exc.item] = PyNone
          /\ returned = << >>
          /\ "output" \notin ns

\* the dispatch of cell 6 failed on its single bad item, which is not the first
\* one, after task had completed on other items
C4_Witness ==
    /\ isMain
    /\ pc = FirstStmt(7)
    /\ raised # << >>
    /\ ~CreationFailed(6)
    /\ Cardinality({j \in 1..Len(data) : data[j] = PyNone}) = 1
    /\ data[1] # PyNone
    /\ \E j \in 1..Len(data) : data[j] # PyNone /\ calls[j] = 1

\* C5: on every exit path of a dispatch (pool.map returned, or pool.map raised
\* and aborted cell 6) the pool that ran it has been shut down: none of its
\* worker processes is left alive.
C5_PoolReleased ==
    /\ \A c \in MapCells : JustReturned(c) => pool \notin DOMAIN live
    /\ (isMain /\ pc = FirstStmt(7) /\ raised # << >>) => pool \notin DOMAIN live

\* C6: while the caller is inside pool.map it has received no result of that
\* dispatch; the call can end only when no chunk is queued, held by a worker or
\* waiting to be handled; and when the caller has the result, every index of
\* the input has been processed.
C6_BlocksUntilAll ==
    /\ \A c \in MapCells :
          At(c, "wait") =>
              /\ \A n \in DOMAIN returned : returned[n].cell # c
              /\ mr.event => (Unhandled = {} /\ mr.number_left = 0)
    /\ At(6, "wait") => "output" \notin ns
    /\ \A c \in MapCells :
          JustReturned(c) =>
              /\ Unhandled = {}
              /\ mr.number_left = 0
              /\ \A j \in 1..Len(Arg(c)) : calls[j] = 1

\* the dispatch of cell 6 returned three or more items whose chunks had
\* reported out of order
C6_Witness ==
    /\ JustReturned(6)
    /\ Len(output) >= 3
    /\ reordered

\* the items of the current dispatch on which task was invoked and raised
FailedItems(c) ==
    {j \in DOMAIN calls : calls[j] > 0 /\ Raises(forked, Arg(c)[j]) # ""}

\* C7: an item on which task raised was handed to task once and never again;
\* once the chunk of such an item has been handled the dispatch is marked
\* failed for good; and no dispatch returns after task raised on an item.
C7_NoRetryNoSwallow ==
    \A c \in MapCells :
        /\ At(c, "wait") =>
              /\ \A j \in FailedItems(c) : calls[j] = 1
              /\ (\E j \in FailedItems(c) : ChunkOf(j) \notin Unhandled) => ~mr.success
        /\ JustReturned(c) => FailedItems(c) = {}

\* the dispatch of cell 6 raised after task failed on two items; the exception
\* that reached the caller is the one of the later item
C7_Witness ==
    /\ isMain
    /\ pc = FirstStmt(7)
    /\ raised # << >>
    /\ raised[1].cell = 6
    /\ Cardinality(FailedItems(6)) >= 2
    /\ \E j \in FailedItems(6) : j < raised[1].exc.item

\* C8: a dispatch of an empty iterable, for any number of processes, puts no
\* chunk in any queue and leaves every worker idle in every state (so no worker
\* ever runs task), is ready at once, and returns the empty list.
C8_EmptyInput ==
    \A c \in MapCells :
        (Len(Arg(c)) = 0 /\ (At(c, "wait") \/ JustReturned(c))) =>
            /\ Unhandled = {}
            /\ calls = << >>
            /\ \A w \in DOMAIN wtask : wtask[w] = << >>
            /\ mr.event
            /\ mr.success
            /\ JustReturned(c) => output = << >>

\* pool.map([]) has returned in cell 6 on a pool of several workers
C8_Witness ==
    /\ JustReturned(6)
    /\ data = << >>
    /\ output = << >>
    /\ processes >= 2

\* C9: with Pool(processes=1), once cells 6 and 7 are over: the dispatch of
\* cell 6 returned exactly when the serial loop of cell 7 over the same data ran
\* to its end, and then with the same list; it raised exactly when the loop
\* raised, and then the exception of the same item; and the dispatch of a
\* timing cell returns the list its serial loop produced.
C9_SingleWorkerIsSequential ==
    processes = 1 =>
        /\ (isMain /\ pc = FirstStmt(8) /\ ~CreationFailed(6) /\ ~CreationFailed(7)) =>
              /\ (\E n \in DOMAIN returned : returned[n].cell = 6)
                    <=> (\E m \in DOMAIN looped : looped[m].cell = 7)
              /\ \A n \in DOMAIN returned, m \in DOMAIN looped :
                    (returned[n].cell = 6 /\ looped[m].cell = 7)
                        => returned[n].result = looped[m].result
              /\ (\E a \in DOMAIN raised : raised[a].cell = 6)
                    <=> (\E b \in DOMAIN raised : raised[b].cell = 7)
              /\ \A a, b \in DOMAIN raised :
                    (raised[a].cell = 6 /\ raised[b].cell = 7)
                        => raised[a].exc = raised[b].exc
        /\ \A n \in DOMAIN returned, m \in DOMAIN looped :
              (returned[n].cell = looped[m].cell) => returned[n].result = looped[m].result

\* one worker; task fails on two items of different chunks, and both the
\* dispatch of cell 6 and the loop of cell 7 raised
C9_Witness ==
    /\ processes = 1
    /\ isMain
    /\ pc = FirstStmt(8)
    /\ Len(raised) = 2
    /\ ~CreationFailed(6)
    /\ Len(data) >= 5
    /\ data[2] = PyNone
    /\ data[5] = PyNone

\* C10: any two dispatches that returned, of the same task over the same items
\* on the same number of processes, returned the same list.
C10_Idempotent ==
    \A a, b \in DOMAIN returned :
        (/\ returned[a].f = returned[b].f
         /\ returned[a].xs = returned[b].xs
         /\ returned[a].k = returned[b].k)
            => returned[a].result = returned[b].result

\* cells 6 and 7 dispatched the same task over the same three or more items;
\* in one of the two dispatches chunks reported out of order, in the other not
C10_Witness ==
    \E a, b \in DOMAIN returned :
        /\ a # b
        /\ returned[a].f = returned[b].f
        /\ returned[a].xs = returned[b].xs
        /\ returned[a].k = returned[b].k
        /\ Len(returned[a].xs) >= 3
        /\ returned[a].reordered
        /\ ~returned[b].reordered

\* C11: with task(x) = x**2, data = [0,...,9] and Pool(processes=3), in every
\* execution of cell 6 the list pool.map returns, and the list the cell
\* prints, is [0, 1, 4, 9, 16, 25, 36, 49, 64, 81].
C11_SquaresOfTen ==
    /\ (data = NotebookData /\ task = "square") =>
          Comprehension(task, data) = RecordedOutput
    /\ JustReturned(6) => output = RecordedOutput
    /\ pc = FirstStmt(7) =>
          /\ output = RecordedOutput
          /\ Len(printed) = 1
          /\ printed[1].out = RecordedOutput
          /\ raised = << >>

\* cell 6 has printed its list after the three workers reported chunks out of
\* order
C11_Witness ==
    /\ pc = FirstStmt(7)
    /\ processes = NotebookProcesses
    /\ Len(data) = NotebookLen
    /\ printed # << >>
    /\ reordered

\* what the caller of pool.map gets of a failure: the exception task raised
\* (its type and message), which carries neither the index of the item nor
\* the worker
Observed(e) == e.type
\* the items of xs on which f raises exactly what the caller observed
Candidates(f, xs, sig) == {j \in 1..Len(xs) : Raises(f, xs[j]) = sig}

\* C12 as stated: a failed dispatch gives the caller exactly one failure, and
\* that failure identifies the item that failed (the item it comes from is the
\* only one the observed exception can be attributed to).
C12_IdentifiesItem ==
    (isMain /\ pc = FirstStmt(7) /\ raised # << >> /\ ~CreationFailed(6)) =>
        /\ Len(raised) = 1
        /\ Candidates(task, data, Observed(raised[1].exc)) = {raised[1].exc.item}

\* C12, amended: a dispatch over an input on which task raises gives the
\* caller exactly one failure, however many items failed: the exception of
\* one of the items task was run on and raised on, as task raised it (it does
\* not tell that item from the other failing ones); nothing is recovered: no
\* item is handed to task a second time, no result is returned or bound to
\* `output`, and the rest of the cell does not run.
C12_SingleFailure ==
    (isMain /\ pc = FirstStmt(7) /\ ~CreationFailed(6) /\ HasBad(task, data)) =>
        /\ Len(raised) = 1
        /\ raised[1].cell = 6
        /\ raised[1].exc.item \in FailedItems(6)
        /\ Observed(raised[1].exc) = Raises(task, data[raised[1].exc.item])
        /\ raised[1].exc.item \in Candidates(task, data, Observed(raised[1].exc))
        /\ \A j \in DOMAIN calls : calls[j] <= 1
        /\ returned = << >>
        /\ "output" \notin ns
        /\ printed = << >>

\* the dispatch of cell 6 raised once although task failed on two items, and
\* it raised the exception of the earliest one
C12_Witness ==
    /\ isMain
    /\ pc = FirstStmt(7)
    /\ Len(raised) = 1
    /\ Cardinality(FailedItems(6)) >= 2
    /\ \A j \in FailedItems(6) : raised[1].exc.item <= j
    /\ \E j \in DOMAIN calls : j \notin FailedItems(6) /\ calls[j] = 1

\* C13: no worker process exists before the first Pool(processes=3); from
\* then on, in every state, the pool bound to `pool` has exactly `processes`
\* worker processes (3 in the notebook), whatever the number of items handed
\* to pool.map and whether they are idle or running a chunk.
C13_FixedSize ==
    /\ pool = 0 => (wtask = << >> /\ live = << >>)
    /\ pool # 0 =>
          /\ pool \in DOMAIN live
          /\ live[pool] = processes
          /\ DOMAIN wtask = 1..processes
          /\ Cardinality(DOMAIN wtask) = NotebookProcesses

\* five items are being dispatched: all three workers run a chunk and a chunk
\* is still waiting in the queue
C13_Witness ==
    /\ At(6, "wait")
    /\ Len(data) > Cardinality(DOMAIN wtask)
    /\ Cardinality(DOMAIN wtask) = NotebookProcesses
    /\ \A w \in DOMAIN wtask : wtask[w] # << >>
    /\ inqueue # << >>

\* C14: a Pool(processes=...) that asks for more worker processes than the
\* operating system allows raises in the cell that asked, and that cell hands
\* nothing to any worker: its pool.map is not reached, no chunk is queued,
\* taken or run, no result comes back, and (the limit staying what it is) no
\* later cell dispatches either; where the first request of the notebook to
\* dispatch (cell 6) failed, no worker has ever invoked task.
C14_CreationFailureStopsDispatch ==
    \A c \in PoolSites : CreationFailed(c) =>
        /\ ~CanStart
        /\ \A n \in DOMAIN raised : raised[n].cell = c => raised[n].exc.type = "OSError"
        /\ \A m \in DOMAIN returned : returned[m].cell # c
        /\ pc.stmt \notin {"map", "wait"}
        /\ taskqueue = << >>
        /\ inqueue = << >>
        /\ outqueue = << >>
        /\ \A w \in DOMAIN wtask : wtask[w] = << >>
        /\ c \in {2, 6} =>
              /\ calls = << >>
              /\ mr = NoResult
              /\ returned = << >>

\* the notebook ran to its end with room for one pool only: cell 2 got its
\* pool, cell 6 did not, and the serial loops of the timing cells ran
C14_Witness ==
    /\ pc = Done
    /\ isMain
    /\ ~CreationFailed(2)
    /\ CreationFailed(6)
    /\ pool = 1
    /\ Len(data) >= 2
    /\ looped # << >>

\* a dispatch of cell c ended with every item run and the full result
EndsComplete(c) ==
    /\ pc' = AfterMap(c)
    /\ Unhandled = {}
    /\ \A j \in DOMAIN calls : calls[j] = 1
    /\ Len(output') = Len(Arg(c))
    /\ raised' = raised
\* a dispatch of cell c ended with the whole call failed on a failed item
EndsFailed(c) ==
    /\ pc' = NextCell(c)
    /\ FailedItems(c) # {}
    /\ Len(raised') = Len(raised) + 1
    /\ output' = output
    /\ returned' = returned

\* C15: the caller leaves pool.map only with every item run and the full
\* result, or with the call failed because task raised on an item (nothing
\* cancels a dispatch or times it out); and, every call of task terminating,
\* a caller inside pool.map eventually leaves it.
C15_DispatchEnds ==
    /\ [][\A c \in MapCells :
            (At(c, "wait") /\ ~At(c, "wait")') => (EndsComplete(c) \/ EndsFailed(c))]_vars
    /\ (pc.stmt = "wait") ~> (pc.stmt # "wait")

\* the dispatch of cell 6 failed on its second item and ended once each of its
\* three or more chunks had been handled
C15_Witness ==
    /\ isMain
    /\ pc = FirstStmt(7)
    /\ ~CreationFailed(6)
    /\ raised # << >>
    /\ mr.number_left = 0
    /\ mr.length \div mr.chunksize >= 3
    /\ raised[1].exc.item = 2

\* the chunks of the current dispatch on their way to task: queued in the
\* caller's process, in the pipe, or held by a worker process
ChunksInFlight ==
    {taskqueue[j] : j \in DOMAIN taskqueue} \cup {inqueue[j] : j \in DOMAIN inqueue}
        \cup UNION {{wtask[w][j] : j \in DOMAIN wtask[w]} : w \in DOMAIN wtask}
\* the items of the caller's list that chunk t was cut from
ItemsOf(c, t) ==
    SubSeq(Arg(c), t.i * mr.chunksize + 1, Min((t.i + 1) * mr.chunksize, Len(Arg(c))))

C17_WorkerStateless ==
    /\ pc.stmt = "wait" =>
          \A n \in DOMAIN outqueue :
              LET r == outqueue[n]
                  xs == ItemsOf(pc.cell, r)
                  k == FirstRaise(forked, xs)
              IN  IF k = 0
                  THEN r.success /\ r.value = Comprehension(forked, xs)
                  ELSE /\ ~r.success
                       /\ r.exc = Exc(Raises(forked, xs[k]), r.i * mr.chunksize + k)
    /\ pc.stmt # "wait" => \A w \in DOMAIN wtask : wtask[w] = << >>

\* the only worker of the pool sent back the results of its third chunk
C17_Witness ==
    /\ processes = 1
    /\ pc.stmt = "wait"
    /\ outqueue # << >>
    /\ outqueue[1].i >= 2
    /\ outqueue[1].success
    /\ outqueue[1].value # << >>

\* C18 as stated: with two or more workers any two items can complete in
\* either order. A worker runs the items of a chunk one after the other in
\* index order, so this requires that no chunk holds two items.
C18_AnyPairEitherOrder ==
    (pc.stmt = "wait" /\ processes >= 2) =>
        \A t \in ChunksInFlight : Len(t.args) <= 1

\* C18, amended: pool.map cuts the list into chunks of ceil(n / (4 * processes))
\* consecutive items; chunks complete in any order when there are two or more
\* workers and two or more chunks (and in index order otherwise), while within
\* a chunk item j is run only after every item before it; a dispatch whose
\* chunks completed out of order and one whose chunks completed in order, of
\* the same task over the same list, return the same list.
C18_ChunksCompleteInAnyOrder ==
    /\ pc.stmt = "wait" =>
          /\ mr.chunksize = ChunkSize(Len(Arg(pc.cell)), processes)
          /\ \A t \in ChunksInFlight : Len(t.args) \in 1..mr.chunksize
          /\ reordered => (processes >= 2 /\ mr.length > mr.chunksize)
          /\ \A a, b \in DOMAIN calls :
                (a < b /\ ChunkOf(a) = ChunkOf(b) /\ calls[b] > 0) => calls[a] > 0
    /\ \A a, b \in DOMAIN returned :
          (/\ returned[a].f = returned[b].f
           /\ returned[a].xs = returned[b].xs
           /\ returned[a].reordered
           /\ ~returned[b].reordered)
              => returned[a].result = returned[b].result

\* two workers, nine items in chunks of two: the chunks of cell 6 completed in
\* index order, those of cell 7 did not, and both dispatches returned
C18_Witness ==
    /\ pc = AfterMap(7)
    /\ processes >= 2
    /\ mr.chunksize = 2
    /\ Len(returned) = 2
    /\ ~returned[1].reordered
    /\ returned[2].reordered
    /\ returned[1].xs = returned[2].xs

\* the statements of a timing cell up to the print of the serial time, and
\* those from its Pool(processes=3) on
SerialPart == {"start", "init", "loop", "stop", "print1"}
ParallelPart == {"pool", "start2", "map", "wait", "stop2", "print2"}
\* what timing cell c has printed so far
PrintedBy(c) ==
    LET ByC(r) == r.cell = c
    IN  SelectSeq(printed, ByC)

\* C19: in a timing cell the serial loop has, after i rounds, appended the
\* results of the first i items in index order; while the cell is in its
\* serial part its pool has not been created, nothing is queued or held by a
\* worker and the cell has dispatched nothing; its parallel part starts only
\* once the loop has run over the whole list and the serial time is printed;
\* and a cell whose dispatch returned ends having printed two times, the
\* serial one and then the parallel one.
C19_SerialThenParallel ==
    \A c \in TimingCells :
        /\ At(c, "loop") =>
              /\ i = Len(output)
              /\ i <= Len(Arg(c))
              /\ output = [j \in 1..i |-> Apply(task, Arg(c)[j])]
        /\ (pc.cell = c /\ pc.stmt \in SerialPart) =>
              /\ Len(live) < Cardinality({s \in PoolSites : s <= c})
              /\ ChunksInFlight = {}
              /\ outqueue = << >>
              /\ \A n \in DOMAIN returned : returned[n].cell # c
              /\ \A n \in DOMAIN PrintedBy(c) : PrintedBy(c)[n].line # "parallel"
        /\ (pc.cell = c /\ pc.stmt \in ParallelPart) =>
              /\ \E m \in DOMAIN looped :
                    /\ looped[m].cell = c
                    /\ looped[m].xs = Arg(c)
                    /\ Len(looped[m].result) = Len(Arg(c))
                    /\ looped[m].result = Comprehension(task, Arg(c))
              /\ Len(PrintedBy(c)) = 1
              /\ PrintedBy(c)[1].line = "serial"
        /\ (pc.cell # c /\ \E n \in DOMAIN returned : returned[n].cell = c) =>
              /\ Len(PrintedBy(c)) = 2
              /\ PrintedBy(c)[1].line = "serial"
              /\ PrintedBy(c)[2].line = "parallel"

\* both timing cells ran their loop and their dispatch over two or more items
\* and printed their two times
C19_Witness ==
    /\ pc = Done
    /\ isMain
    /\ Len(data) >= 2
    /\ Len(sizes) >= 2
    /\ Len(looped) = 2
    /\ Len(PrintedBy(7)) = 2
    /\ Len(PrintedBy(10)) = 2
    /\ \E n \in DOMAIN returned : returned[n].cell = 10

\* C20: in the notebook every pool ever created still has its three worker
\* processes; a step never removes a pool, and a step that rebinds `pool`
\* binds it to a pool created by that step while the pool it referred to
\* stays; when the last cell has run and no cell raised, four pools and
\* twelve worker processes are left and `pool` refers to the fourth.
C20_PoolsOnlyGrow ==
    /\ [](\A p \in DOMAIN live : live[p] = NotebookProcesses)
    /\ [][/\ Len(live') >= Len(live)
          /\ SubSeq(live', 1, Len(live)) = live
          /\ pool' # pool =>
                /\ Len(live') = Len(live) + 1
                /\ pool' = Len(live')]_vars
    /\ []((pc = Done /\ raised = << >>) =>
            /\ Len(live) = Cardinality(PoolSites)
            /\ Len(live) = 4
            /\ Alive = 12
            /\ pool = 4)

\* the notebook ran to its end over non-empty lists without an exception
C20_Witness ==
    /\ pc = Done
    /\ raised = << >>
    /\ Len(data) >= 2
    /\ Len(sizes) >= 2
    /\ Len(returned) = 3
    /\ Len(live) = 4
    /\ Alive = 12

\* the steps from start = timer() to stop = timer() around a pool.map over n
\* items on k processes: the timer, the call, four per chunk (sent, taken,
\* run, handled) and the return
DispatchSteps(n, k) == 4 * NumberLeft(n, ChunkSize(n, k)) + 3

\* cell s raised before its Pool(processes=3) returned a pool: the Pool call
\* itself, or the serial loop of a timing cell (whose pool.map never raises,
\* the loop having run task on every item first)
NoPoolFrom(s) ==
    \E n \in DOMAIN raised :
        /\ raised[n].cell = s
        /\ (s \in TimingCells \/ raised[n].exc.type = "OSError")

\* C21: in the guarded block of a timing cell the pool of the cell exists
\* before start = timer() runs, and nothing is dispatched yet; pool.map is
\* called right after the timer was read; stop = timer() runs once pool.map
\* has returned; and the parallel time printed is the time of the dispatch
\* alone, without the step that created the pool.
C21_TimerAfterPool ==
    \A c \in TimingCells :
        /\ At(c, "start2") =>
              /\ isMain
              /\ pool = Len(live)
              /\ Len(live) = Cardinality({s \in PoolSites : s <= c /\ ~NoPoolFrom(s)})
              /\ ~NoPoolFrom(c)
              /\ ChunksInFlight = {}
              /\ \A n \in DOMAIN returned : returned[n].cell # c
        /\ At(c, "map") => start = clock - 1
        /\ At(c, "wait") => start < clock
        /\ At(c, "stop2") =>
              /\ \E n \in DOMAIN returned : returned[n].cell = c
              /\ clock - start = DispatchSteps(Len(Arg(c)), processes)
        /\ (isMain /\ At(c, "print2")) =>
              stop - start = DispatchSteps(Len(Arg(c)), processes)
        /\ (pc.cell # c /\ \E n \in DOMAIN returned : returned[n].cell = c) =>
              /\ Len(PrintedBy(c)) = 2
              /\ PrintedBy(c)[2].t = DispatchSteps(Len(Arg(c)), processes)

\* cell 10 printed the time of a dispatch of two or more chunks
C21_Witness ==
    /\ pc = Done
    /\ isMain
    /\ Len(sizes) >= 2
    /\ \E n \in DOMAIN returned : returned[n].cell = 10
    /\ Len(PrintedBy(10)) = 2
    /\ PrintedBy(10)[2].t = DispatchSteps(Len(sizes), processes)
    /\ PrintedBy(10)[2].t > 7

\* C22: when __name__ == '__main__' is false no pool is ever created and
\* nothing is ever dispatched; a timing cell whose serial loop ran to its end
\* still prints its parallel line, with the serial stop - start as the time,
\* and leaves in `output` the list the serial loop built.
C22_GuardFalse ==
    ~isMain =>
        /\ live = << >>
        /\ pool = 0
        /\ wtask = << >>
        /\ mr = NoResult
        /\ calls = << >>
        /\ ChunksInFlight = {}
        /\ outqueue = << >>
        /\ returned = << >>
        /\ \A c \in TimingCells :
              (pc.cell # c /\ \E m \in DOMAIN looped : looped[m].cell = c) =>
                  /\ Len(PrintedBy(c)) = 2
                  /\ PrintedBy(c)[1].line = "serial"
                  /\ PrintedBy(c)[2].line = "parallel"
                  /\ PrintedBy(c)[2].t = PrintedBy(c)[1].t
                  /\ pc = NextCell(c) =>
                        /\ stop - start = PrintedBy(c)[1].t
                        /\ \E m \in DOMAIN looped :
                              looped[m].cell = c /\ output = looped[m].result
                        /\ output = Comprehension(task, Arg(c))

\* not run as the main module: both timing cells looped over two or more
\* items and printed their two lines
C22_Witness ==
    /\ ~isMain
    /\ pc = Done
    /\ Len(data) >= 2
    /\ Len(sizes) >= 2
    /\ Len(looped) = 2
    /\ Len(PrintedBy(7)) = 2
    /\ Len(PrintedBy(10)) = 2
    /\ PrintedBy(10)[2].line = "parallel"
    /\ Len(output) = Len(sizes)

\* C23: whenever pool.map is called or running, `pool` refers to the pool
\* created last, which is not the pool of cell 2, and the workers of that pool
\* hold the definition of `task` that is current: the squaring one in cells 6
\* and 7, the sorting one in cell 10; every dispatch that returned was of the
\* definition current in its cell.
C23_PoolAfterTask ==
    /\ pc.stmt \in {"map", "wait"} =>
          /\ task # "undefined"
          /\ forked = task
          /\ task = IF pc.cell = 10 THEN "sort" ELSE "square"
          /\ pool = Len(live)
          /\ pool >= 2
    /\ \A n \in DOMAIN returned :
          returned[n].f = IF returned[n].cell = 10 THEN "sort" ELSE "square"
    /\ (pc.cell \in {4, 5} /\ pool # 0) => (pool = 1 /\ forked = "undefined")

\* cell 10 is dispatching the sorting task on the fourth pool, created after
\* cell 8 redefined task
C23_Witness ==
    /\ At(10, "wait")
    /\ task = "sort"
    /\ forked = "sort"
    /\ pool = 4
    /\ Len(sizes) >= 2
    /\ \E w \in DOMAIN wtask : wtask[w] # << >>

\* the statements of cell 10 at which `output` holds results of the sorting task
SortOutputAt == {"loop", "stop", "print1", "pool", "start2", "map", "wait", "stop2",
                 "print2"}

\* C24: whatever the sizes N are, every value the sorting task returns is None:
\* the sequential loop of cell 10, when it completes, has filled `output` with
\* len(sizes) None values, pool.map(task, sizes), when it returns, returns
\* len(sizes) None values, and every item `output` holds in between is None.
C24_SortReturnsNone ==
    /\ \A m \in DOMAIN looped :
          looped[m].cell = 10 =>
              /\ looped[m].f = "sort"
              /\ looped[m].xs = sizes
              /\ looped[m].result = Nones(Len(sizes))
    /\ \A n \in DOMAIN returned :
          returned[n].cell = 10 =>
              /\ returned[n].f = "sort"
              /\ returned[n].xs = sizes
              /\ returned[n].result = Nones(Len(sizes))
    /\ (pc.cell = 10 /\ pc.stmt \in SortOutputAt) =>
          \A j \in DOMAIN output : output[j] = PyNone
    /\ (pc.cell = 10 /\ pc.stmt \in SortOutputAt \ {"loop"}) =>
          output = Nones(Len(sizes))
    /\ (pc = Done /\ \A n \in DOMAIN raised : raised[n].cell # 10) =>
          output = Nones(Len(sizes))

\* cell 10 has run its loop and its dispatch over two sizes, and both gave
\* [None, None]
C24_Witness ==
    /\ pc = Done
    /\ isMain
    /\ Len(sizes) = 2
    /\ sizes[1] = PyInt(2)
    /\ \E m \in DOMAIN looped :
          looped[m].cell = 10 /\ looped[m].result = << PyNone, PyNone >>
    /\ \E n \in DOMAIN returned :
          returned[n].cell = 10 /\ returned[n].result = << PyNone, PyNone >>
    /\ output = << PyNone, PyNone >>

\* the names the cells bind
Names == {"pool", "task", "data", "sizes", "output", "start", "stop"}
\* the statements of a timing cell between the end of its loop and the return
\* of its pool.map
SerialHeldAt == {"stop", "print1", "pool", "start2", "map", "wait"}
\* the results recorded for the loop and the dispatch of cell c
LoopsOf(c) == {m \in DOMAIN looped : looped[m].cell = c}
ReturnsOf(c) == {n \in DOMAIN returned : returned[n].cell = c}

\* C25: in a timing cell run with the guard true, `output` holds the result of
\* the sequential loop from the end of the loop until pool.map returns, and
\* from then to the end of the cell it holds the result of pool.map alone, of
\* the length of the input; no other name keeps the sequential result, and
\* nothing fails once both results exist (no statement compares them).
C25_OutputOverwritten ==
    /\ ns \subseteq Names
    /\ \A c \in TimingCells :
          /\ (isMain /\ pc.cell = c /\ pc.stmt \in SerialHeldAt) =>
                /\ ReturnsOf(c) = {}
                /\ Cardinality(LoopsOf(c)) = 1
                /\ \A m \in LoopsOf(c) :
                      /\ output = looped[m].result
                      /\ Len(output) = Len(Arg(c))
          /\ (isMain /\ (At(c, "stop2") \/ At(c, "print2"))) =>
                Cardinality(ReturnsOf(c)) = 1
          /\ (/\ isMain
              /\ ReturnsOf(c) # {}
              /\ pc.cell = c \/ pc = NextCell(c)) =>
                /\ Cardinality(LoopsOf(c)) = 1
                /\ Cardinality(ReturnsOf(c)) = 1
                /\ \A n \in ReturnsOf(c) :
                      /\ output = returned[n].result
                      /\ returned[n].xs = Arg(c)
                /\ Len(output) = Len(Arg(c))
                /\ \A n \in DOMAIN raised : raised[n].cell # c

\* cell 7 has ended with the guard true over a list of three items: `output`
\* is the result of its dispatch, three items long
C25_Witness ==
    /\ isMain
    /\ pc = NextCell(7)
    /\ Len(data) = 3
    /\ LoopsOf(7) # {}
    /\ \E n \in ReturnsOf(7) :
          /\ output = returned[n].result
          /\ Len(output) = 3
          /\ output[3] = PyInt(4)

====
